---- MODULE Spec2Model ----
(***************************************************************************)
(* NL -> SQL chat application (Streamlit): the turn handler of             *)
(* streamlit_app.py with the functions it calls in llm.py, db.py and       *)
(* utils.py.  One script run handles one question: translation, schema     *)
(* retrieval, SQL generation, validation, execution, bookkeeping.          *)
(* Spec is the chat session; SpecRebuild is db.build_schema_cache, the     *)
(* schema catalog builder behind the "update schema" button.               *)
(*                                                                         *)
(* Texts are sequences of symbols.  A question is a sequence of character  *)
(* names (CodePoint gives each its Unicode code point); an SQL text is a   *)
(* sequence of tokens: "W" whitespace, "SEMI" a semicolon, "SEL" the text  *)
(* of one complete SELECT statement, "DEL" the text of one complete DELETE *)
(* statement, "BAD" text that is not SQL.                                  *)
(***************************************************************************)
EXTENDS Integers, Sequences, FiniteSets, TLC

\* ---------------------------------------------------------------- bounds
MaxMessages == 3    \* longest session list after a question is submitted and answered
MaxSqlLen == 3      \* longest SQL text (in tokens) the language model emits
MaxHits == 1        \* most documents the schema index returns
MaxLimitSpan == 1   \* LIMIT settings MinMaxRows .. MinMaxRows + MaxLimitSpan
MaxOverflow == 1    \* the database returns up to this many rows over the largest LIMIT
MaxDdl == 1         \* catalog changes by other sessions while one rebuild runs
MaxRebuilds == 1    \* presses of the "update schema" button

\* ----------------------------------------------------- program constants
MinMaxRows == 10            \* st.number_input("LIMIT", 10, 5000, ...)
MinTopK == 1                \* st.slider("Top-K", min_value=1, ...)
SearchTop == 10             \* search(top=10): the fixed over-fetch
StatementTimeoutMs == 30000 \* STATEMENT_TIMEOUT_MS default
JamoFirst == 12593          \* U+3131, first of the class [ㄱ-ㅎ]
JamoLast == 12622           \* U+314E
SyllableFirst == 44032      \* U+AC00, first of the class [가-힣]
SyllableLast == 55203       \* U+D7A3

\* ---------------------------------------------------------------- values
None == [some |-> FALSE]
Some(v) == [some |-> TRUE, v |-> v]

Min(a, b) == IF a <= b THEN a ELSE b
Max(a, b) == IF a >= b THEN a ELSE b

SeqsUpTo(S, n) == UNION {[1..k -> S] : k \in 0..n}

Last(s) == s[Len(s)]

\* Characters a question is made of, by name, and their code points.
CodePoint ==
  [c \in {"A", "T", "giyeok", "a_jamo", "ga"} |->
     CASE c = "A" -> 65          \* LATIN CAPITAL LETTER A
       [] c = "T" -> 84          \* LATIN CAPITAL LETTER T
       [] c = "giyeok" -> 12593  \* U+3131 HANGUL LETTER KIYEOK
       [] c = "a_jamo" -> 12623  \* U+314F HANGUL LETTER A
       [] c = "ga" -> 44032]     \* U+AC00 HANGUL SYLLABLE GA

\* Questions the user submits: ASCII; a Hangul consonant letter and a Hangul
\* syllable; a Hangul vowel letter.
Prompts == {<<"A">>, <<"giyeok", "ga">>, <<"a_jamo">>}

\* What the translation service answers: a text, or an HTTP error.
Translations == {<<"T">>}
TranslatorReplies ==
  {[kind |-> "ok", text |-> t] : t \in Translations} \cup {[kind |-> "error"]}

\* utils.is_korean: re.search(r"[ㄱ-ㅎ가-힣]", text or "")
InKoreanClass(cp) ==
  \/ JamoFirst <= cp /\ cp <= JamoLast
  \/ SyllableFirst <= cp /\ cp <= SyllableLast

is_korean(text) == \E i \in 1..Len(text) : InKoreanClass(CodePoint[text[i]])

\* ----------------------------------------------------------------- SQL text
Tokens == {"W", "SEMI", "SEL", "DEL", "BAD"}
SqlTexts == SeqsUpTo(Tokens, MaxSqlLen)

\* str.strip(): drop leading and trailing whitespace.
RECURSIVE lstrip(_)
lstrip(t) == IF t # <<>> /\ Head(t) = "W" THEN lstrip(Tail(t)) ELSE t

RECURSIVE rstrip(_)
rstrip(t) ==
  IF t # <<>> /\ Last(t) = "W" THEN rstrip(SubSeq(t, 1, Len(t) - 1)) ELSE t

strip(t) == rstrip(lstrip(t))

\* sqlglot's parser cuts the token stream at semicolons: a semicolon that is
\* not the last token opens a new chunk; whitespace is no token.
RECURSIVE Chunks(_)
Chunks(t) ==
  IF t = <<>> THEN << <<>> >>
  ELSE LET rest == Chunks(Tail(t)) IN
       CASE Head(t) = "W" -> rest
         [] Head(t) = "SEMI" ->
              IF \A i \in 2..Len(t) : t[i] = "W" THEN << <<>> >> ELSE << <<>> >> \o rest
         [] OTHER -> << <<Head(t)>> \o Head(rest) >> \o Tail(rest)

\* One chunk parsed as a statement: "none" for an empty chunk, the expression's
\* key for one statement, "error" for anything else.
ParseChunk(c) ==
  CASE c = <<>> -> "none"
    [] c = <<"SEL">> -> "select"
    [] c = <<"DEL">> -> "delete"
    [] OTHER -> "error"

\* sqlglot.parse(sql, read="postgres"): every chunk is parsed; one syntax
\* error fails the whole call.
parse(t) ==
  LET cs == Chunks(t) IN
  IF \E i \in 1..Len(cs) : ParseChunk(cs[i]) = "error"
    THEN [raised |-> TRUE, cls |-> "ParseError", text |-> "syntax"]
    ELSE [raised |-> FALSE, value |-> [i \in 1..Len(cs) |-> ParseChunk(cs[i])]]

\* sqlglot.parse_one(sql, read="postgres"): the FIRST expression of
\* parse(sql); an error when that first expression is empty.  Statements after
\* the first are parsed and then dropped.
parse_one(t) ==
  LET r == parse(t) IN
  IF r.raised THEN r
  ELSE IF r.value[1] = "none"
    THEN [raised |-> TRUE, cls |-> "ParseError", text |-> "no_expression"]
    ELSE [raised |-> FALSE, value |-> r.value[1]]

\* str.upper() on the expression keys.
upper(k) == CASE k = "select" -> "SELECT" [] k = "delete" -> "DELETE" [] OTHER -> k

\* `except Exception`: every exception class of the model derives from
\* Exception (Streamlit's rerun signal does not, and is raised outside try).
ExceptionClasses ==
  {"ValueError", "ParseError", "RuntimeError", "OperationalError",
   "InternalError", "ProgrammingError", "HttpError", "OutputParserException",
   "MemoryError"}

IsException(cls) == cls \in ExceptionClasses

Raise(cls, text) == [raised |-> TRUE, cls |-> cls, text |-> text]
Return(v) == [raised |-> FALSE, value |-> v]

\* dict.get(key, default)
get(d, key, default) == IF key \in DOMAIN d THEN d[key] ELSE default

\* Python's s[:n]
SliceTo(s, n) ==
  IF n >= 0 THEN SubSeq(s, 1, Min(n, Len(s)))
            ELSE SubSeq(s, 1, Max(0, Len(s) + n))

\* ------------------------------------------------------------ inputs
RowLimits == MinMaxRows .. (MinMaxRows + MaxLimitSpan)
TopKs == MinTopK .. Max(MinTopK, MaxHits)
Docs == {"public.film"}
Hits == SeqsUpTo(Docs, Min(SearchTop, MaxHits))
SearchReplies ==
  {[kind |-> "hits", docs |-> h] : h \in Hits}
    \cup {[kind |-> "client_error"], [kind |-> "search_error"]}

\* Row counts the database answers with: none, fewer than any LIMIT, and
\* from the smallest LIMIT up to MaxOverflow rows over the largest one.
DbRowCounts ==
  {0, 1} \cup (MinMaxRows .. (MinMaxRows + MaxLimitSpan + MaxOverflow))

\* The rows of a result of n rows, in the order the database sends them.
DbRows(n) == [i \in 1..n |-> i]

\* What the language model answers: a JSON object with or without the two
\* fields of SQLResponse.
LlmObjects ==
  {[sql |-> t, reasoning_short |-> "r"] : t \in SqlTexts}
    \cup {[sql |-> t] : t \in SqlTexts}
    \cup {[reasoning_short |-> "r"]}

\* What the chat-model call does: fails, answers text that is not JSON, or
\* answers a JSON object.
LlmReplies ==
  {[kind |-> "json", obj |-> o] : o \in LlmObjects}
    \cup {[kind |-> "call_error"], [kind |-> "not_json"]}

\* ------------------------------------------------------------------ state
VARIABLES
  messages,        \* st.session_state.messages: a list of dicts
  pc,              \* where the script run stands; "idle" between runs
  lastRun,         \* how the last script run ended
  PG_DSN,          \* db.PG_DSN, read from the environment at import
  prompt,          \* the submitted question
  max_rows,        \* sidebar LIMIT of this run
  schema_top_k,    \* sidebar Top-K of this run
  question,        \* prompt, translated when Korean
  SCHEMA_SNIPPET,  \* what get_schema_snippet returned
  sql,             \* llm_out["sql"], stripped
  reasoning,       \* llm_out["reasoning_short"]
  sql_valid,       \* set by the validation block
  calls,           \* history: the calls of this run, in order, and how each ended
  conn,            \* the database connection of run_readonly_select_simple
  db_rows,         \* history: what result.fetchall() gave
  returned,        \* history: what run_readonly_select_simple returned
  db,              \* the relations of the target database
  store,           \* the blobs of the container "data"
  rb               \* build_schema_cache: its position, locals and history

vars ==
  <<messages, pc, lastRun, PG_DSN, prompt, max_rows, schema_top_k, question,
    SCHEMA_SNIPPET, sql, reasoning, sql_valid, calls, conn, db_rows, returned,
    db, store, rb>>

turnLocals == <<question, SCHEMA_SNIPPET, sql, reasoning, sql_valid>>
execLocals == <<conn, db_rows, returned>>
settings == <<PG_DSN, prompt, max_rows, schema_top_k>>
rebuildVars == <<db, store, rb>>

Greeting == [role |-> "assistant", content |-> <<"greeting">>]

NoConn == [state |-> "none"]
\* A new session of the server: no timeout, read-write.
FreshConn ==
  [state |-> "open",
   guards |-> [statement_timeout |-> 0, transaction_read_only |-> FALSE],
   executed |-> <<>>]

\* build_schema_cache is not running.
NoRebuild ==
  [pc |-> "idle",        \* where build_schema_cache stands
   outcome |-> "none",   \* how the last call ended
   tables |-> <<>>, columns |-> <<>>, pk |-> <<>>, fk |-> <<>>,
   read |-> {},          \* history: the catalog queries that returned
   schema_map |-> <<>>,
   i |-> 1,              \* the item of schema_map the upload loop is at
   before |-> {},        \* history: the container when the call began
   deleted |-> {},       \* history: the blobs this call deleted
   uploaded |-> <<>>,    \* history: the titles this call uploaded
   result |-> <<>>,      \* what the call returned
   ddl |-> 0,            \* catalog changes by other sessions since the call began
   n |-> 0]              \* calls so far

Init ==
  /\ messages = <<Greeting>>
  /\ pc = "idle"
  /\ lastRun = "none"
  /\ PG_DSN \in {"", "dsn"}
  /\ prompt = <<>>
  /\ max_rows \in RowLimits
  /\ schema_top_k \in TopKs
  /\ question = <<>>
  /\ SCHEMA_SNIPPET = None
  /\ sql = None
  /\ reasoning = None
  /\ sql_valid = FALSE
  /\ calls = <<>>
  /\ conn = NoConn
  /\ db_rows = <<>>
  /\ returned = None
  /\ db = {}
  /\ store = {}
  /\ rb = NoRebuild

\* A failure message of the handler: f"<stage> 실패: {e}"
FailureTurn(stage, text) == [role |-> "assistant", content |-> <<stage, text>>]

\* A rerun request that lets the script run go on where it stands.
Rerun_Continues == pc' = pc /\ lastRun' = "rerun"

\* st.rerun(): the script run ends and the page is drawn again.
Rerun == pc' = "idle" /\ lastRun' = "rerun"
\* The script run reaches its end with nothing more to do.
EndOfScript == pc' = "idle" /\ lastRun' = "end"
\* An exception leaves the script: Streamlit shows it and the run is over.
Uncaught == pc' = "idle" /\ lastRun' = "exception"

\* -------------------------------------------------------------- sidebar
\* "Clear Chat": the list is replaced by the greeting, then st.rerun().  The
\* run of the click handles no question: it has none of a turn's locals.
ClearChat ==
  /\ pc = "idle"
  /\ messages' = <<Greeting>>
  /\ Rerun
  /\ prompt' = <<>>
  /\ question' = <<>>
  /\ SCHEMA_SNIPPET' = None
  /\ sql' = None
  /\ reasoning' = None
  /\ sql_valid' = FALSE
  /\ calls' = <<>>
  /\ conn' = NoConn
  /\ db_rows' = <<>>
  /\ returned' = None
  /\ UNCHANGED <<rebuildVars, PG_DSN, max_rows, schema_top_k>>

\* The LIMIT or the Top-K widget is changed: a script run with the new
\* values and no question.  It draws the page and ends.
ChangeSettings(limit, k) ==
  /\ pc = "idle"
  /\ <<limit, k>> # <<max_rows, schema_top_k>>
  /\ max_rows' = limit
  /\ schema_top_k' = k
  /\ EndOfScript
  /\ prompt' = <<>>
  /\ question' = <<>>
  /\ SCHEMA_SNIPPET' = None
  /\ sql' = None
  /\ reasoning' = None
  /\ sql_valid' = FALSE
  /\ calls' = <<>>
  /\ conn' = NoConn
  /\ db_rows' = <<>>
  /\ returned' = None
  /\ UNCHANGED <<rebuildVars, messages, PG_DSN>>

\* ----------------------------------------------------------- turn handler
\* if prompt: the user's turn is appended; the widgets give this run's
\* settings.
Submit(p, limit, k) ==
  /\ pc = "idle"
  /\ Len(messages) + 2 <= MaxMessages
  /\ messages' = Append(messages, [role |-> "user", content |-> p])
  /\ prompt' = p
  /\ max_rows' = limit
  /\ schema_top_k' = k
  /\ question' = <<>>
  /\ SCHEMA_SNIPPET' = None
  /\ sql' = None
  /\ reasoning' = None
  /\ sql_valid' = FALSE
  /\ calls' = <<>>
  /\ conn' = NoConn
  /\ db_rows' = <<>>
  /\ returned' = None
  /\ pc' = "translate"
  /\ UNCHANGED <<rebuildVars, lastRun, PG_DSN>>

\* llm.translator: one HTTP call; raise_for_status or a missing endpoint raise.
translator(text, ext) ==
  IF ext.kind = "error" THEN Raise("HttpError", "http") ELSE Return(ext.text)

\* question = translator(prompt) if is_korean(prompt) else prompt
\* (outside every try block)
Translate ==
  /\ pc = "translate"
  /\ IF is_korean(prompt)
       THEN \E ext \in TranslatorReplies :
              LET r == translator(prompt, ext) IN
              /\ calls' = Append(calls, [fn |-> "translator", arg |-> prompt,
                                         ret |-> IF r.raised THEN "raise" ELSE "value"])
              /\ IF r.raised
                   THEN Uncaught /\ UNCHANGED question
                   ELSE question' = r.value /\ pc' = "schema" /\ UNCHANGED lastRun
       ELSE /\ question' = prompt
            /\ pc' = "schema"
            /\ UNCHANGED <<calls, lastRun>>
  /\ UNCHANGED <<rebuildVars, messages, settings, SCHEMA_SNIPPET, sql, reasoning, sql_valid,
                 execLocals>>

\* llm.get_schema_snippet(question, top_k).  ext is what the search service
\* does: "client_error" (SearchClient cannot be built, outside the try),
\* "search_error" (the search raises inside the try: printed, and the function
\* falls off its end), or the ranked hits.
get_schema_snippet(q, top_k, ext) ==
  CASE ext.kind = "client_error" -> Raise("ValueError", "search_client")
    [] ext.kind = "search_error" -> Return(None)
    [] OTHER -> Return(Some(SliceTo(ext.docs, top_k)))

\* The schema stage and the guard of the generation stage
\* (if SCHEMA_SNIPPET is not None).
Retrieve ==
  /\ pc = "schema"
  /\ \E ext \in SearchReplies :
       LET r == get_schema_snippet(question, schema_top_k, ext) IN
       /\ calls' = Append(calls,
            [fn |-> "get_schema_snippet", arg |-> question,
             ext |-> ext.kind,
             ret |-> IF r.raised THEN "raise"
                     ELSE IF r.value = None THEN "none" ELSE "value"])
       /\ IF r.raised
            THEN /\ messages' = Append(messages, FailureTurn("schema_failed", r.text))
                 /\ Rerun
                 /\ UNCHANGED SCHEMA_SNIPPET
            ELSE /\ SCHEMA_SNIPPET' = r.value
                 /\ UNCHANGED messages
                 /\ IF r.value # None
                      THEN pc' = "generate" /\ UNCHANGED lastRun
                      ELSE EndOfScript
  /\ UNCHANGED <<rebuildVars, settings, question, sql, reasoning, sql_valid, execLocals>>

\* llm.nl2sql: chain = prompt | client | JsonOutputParser(pydantic_object=
\* SQLResponse).  The parser decodes JSON and returns the dict as it is; the
\* pydantic class only words the format instructions.  A failed example search
\* is swallowed inside nl2sql and changes the prompt alone.
nl2sql(q, schema_snippet, limit, ext) ==
  CASE ext.kind = "call_error" -> Raise("HttpError", "llm")
    [] ext.kind = "not_json" -> Raise("OutputParserException", "invalid_json")
    [] OTHER -> Return(ext.obj)

\* How a reply relates to the output contract {sql, reasoning_short}.
ReplyShape(ext) ==
  CASE ext.kind # "json" -> ext.kind
    [] "sql" \notin DOMAIN ext.obj -> "no_sql"
    [] "reasoning_short" \notin DOMAIN ext.obj -> "no_reasoning"
    [] OTHER -> "complete"

\* The generation stage: try: nl2sql, .get("sql", "").strip(),
\* .get("reasoning_short", "")  except Exception: failure turn, st.rerun().
Generate ==
  /\ pc = "generate"
  /\ \E ext \in LlmReplies :
       LET r == nl2sql(question, SCHEMA_SNIPPET.v, max_rows, ext) IN
       /\ calls' = Append(calls,
            [fn |-> "nl2sql", arg |-> question, schema |-> SCHEMA_SNIPPET.v,
             ext |-> ReplyShape(ext),
             ret |-> IF r.raised THEN "raise" ELSE "value"])
       /\ IF r.raised
            THEN /\ IF IsException(r.cls)
                      THEN /\ messages' = Append(messages,
                                  FailureTurn("generation_failed", r.text))
                           /\ Rerun
                      ELSE Uncaught /\ UNCHANGED messages
                 /\ UNCHANGED <<sql, reasoning>>
            ELSE /\ sql' = Some(strip(get(r.value, "sql", <<>>)))
                 /\ reasoning' = Some(get(r.value, "reasoning_short", ""))
                 /\ pc' = "validate"
                 /\ UNCHANGED <<messages, lastRun>>
  /\ UNCHANGED <<rebuildVars, settings, question, SCHEMA_SNIPPET, sql_valid, execLocals>>

\* The checks of the validation block: the empty check, sqlglot.parse_one,
\* the top-level key.
Gatekeeper(t) ==
  IF t = <<>> THEN Raise("ValueError", "no_sql")
  ELSE LET parsed == parse_one(t) IN
       IF parsed.raised THEN parsed
       ELSE IF upper(parsed.value) # "SELECT"
         THEN Raise("ValueError", "select_only")
         ELSE Return(TRUE)

\* A validation block that catches its own ValueError only.
ValidationCatches_ValueErrorOnly(cls) == cls = "ValueError"

\* except Exception as e: of the validation block
ValidationCatches(cls) == IsException(cls)

\* A handler whose except branch does not end the run.
AfterValidation_FallsThrough(g) == "execute"

\* Where the run goes after the validation block: st.rerun() in the except
\* branch ends it, "if sql_valid:" lets it on.
AfterValidation(g) == IF g.raised THEN "idle" ELSE "execute"

\* The validation stage.
Validate ==
  /\ pc = "validate"
  /\ LET g == Gatekeeper(sql.v) IN
     /\ calls' = Append(calls,
          [fn |-> "gatekeeper", arg |-> sql.v,
           ret |-> IF g.raised THEN "raise" ELSE "value"])
     /\ sql_valid' = ~g.raised
     /\ IF g.raised /\ ~ValidationCatches(g.cls)
          THEN Uncaught /\ UNCHANGED messages
          ELSE /\ messages' = IF g.raised
                    THEN Append(messages, FailureTurn("validation_failed", g.text))
                    ELSE messages
               /\ pc' = AfterValidation(g)
               /\ lastRun' = IF AfterValidation(g) = "idle" THEN "rerun" ELSE lastRun
  /\ UNCHANGED <<rebuildVars, settings, question, SCHEMA_SNIPPET, sql, reasoning, execLocals>>

\* ------------------------------------------------------------- executor
\* db.get_engine
get_engine(dsn) ==
  IF dsn = "" THEN Raise("RuntimeError", "no_dsn") ELSE Return("engine")

\* A setup that sets the timeout and forgets the read-only flag.
SetGuards_TimeoutOnly(c) ==
  [c EXCEPT !.guards = [statement_timeout |-> StatementTimeoutMs,
                        transaction_read_only |-> FALSE],
            !.executed = Append(@, [kind |-> "setup", guards |-> c.guards])]

\* conn.execute(text(setup_sql)): SET statement_timeout, SET
\* transaction_read_only on this connection.
SetGuards(c) ==
  [c EXCEPT !.guards = [statement_timeout |-> StatementTimeoutMs,
                        transaction_read_only |-> TRUE],
            !.executed = Append(@, [kind |-> "setup", guards |-> c.guards])]

\* conn.execute(text(sql)): the statement runs under the guards in force.
RunUserSql(c) ==
  [c EXCEPT !.executed = Append(@, [kind |-> "user", guards |-> c.guards])]

\* Leaving "with engine.connect() as conn", by return or by exception.
ConnExit(c) == [c EXCEPT !.state = "closed"]

\* What the server does with the text: a timeout, a result too large to hold
\* (MemoryError, whose text is empty), a refusal of a write in a read-only
\* transaction, an SQL error, or rows.
UserSqlOutcomes(t, guards) ==
  {Raise("OperationalError", "timeout"), Raise("MemoryError", "")}
    \cup (IF \E i \in 1..Len(t) : t[i] = "DEL"
            THEN IF guards.transaction_read_only
                   THEN {Raise("InternalError", "read_only")}
                   ELSE {Return(<<>>)}
            ELSE {Raise("ProgrammingError", "sql_error")}
                   \cup {Return(DbRows(n)) : n \in DbRowCounts})

\* A truncation that keeps one row too many.
Truncate_OffByOne(rows, limit) == SliceTo(rows, limit + 1)

\* rows = rows[:max_rows]; cols = list(result.keys());
\* rows_as_tuples = [tuple(row) for row in rows]
Truncate(rows, limit) == SliceTo(rows, limit)
ResultOf(rows, limit) ==
  LET kept == Truncate(rows, limit) IN
  [cols |-> <<"c1">>, rows |-> [i \in 1..Len(kept) |-> <<kept[i]>>]]

\* df.to_dict("records"): one dict per row, keyed by column name.
to_records(cols, rows) ==
  [i \in 1..Len(rows) |-> [c \in {cols[j] : j \in 1..Len(cols)} |->
     rows[i][CHOOSE j \in 1..Len(cols) : cols[j] = c]]]

\* A wrapper that never converts the rows to records.
execute_sql_query_NoRecords(r) ==
  IF r.raised
    THEN [result_dict |-> None, row_count |-> 0, error_msg |-> Some(r.text)]
    ELSE [result_dict |-> Some(<<>>), row_count |-> Len(r.value.rows),
          error_msg |-> None]

\* execute_sql_query(sql, max_rows, show_ui=False): r is how
\* run_readonly_select_simple ended.
execute_sql_query(r) ==
  IF r.raised
    THEN [result_dict |-> None, row_count |-> 0, error_msg |-> Some(r.text)]
    ELSE [result_dict |-> Some(IF r.value.rows = <<>> THEN <<>>
                               ELSE to_records(r.value.cols, r.value.rows)),
          row_count |-> Len(r.value.rows),
          error_msg |-> None]

\* Python truth of `error_msg` (None and "" are false) and of `result_dict`
\* (None and [] are false).
TruthyStr(x) == x.some /\ x.v # ""
TruthyList(x) == x.some /\ x.v # <<>>

\* _extract_schema_table_names: the names of the snippet, without duplicates
\* (the sorted list is kept as its set).
extract_schema_table_names(snippet) ==
  IF snippet = None THEN {} ELSE {snippet.v[i] : i \in 1..Len(snippet.v)}

\* A bookkeeping that stores one dict shape for both outcomes.
ExecutionTurn_OneShape(res, text, why, limit, snippet) ==
  [role |-> "assistant",
   content |-> IF TruthyStr(res.error_msg)
                 THEN <<"exec_failed", res.error_msg.v>> ELSE <<"exec_ok">>,
   sql |-> text,
   reasoning |-> why,
   error |-> IF res.error_msg.some THEN res.error_msg.v ELSE "",
   result |-> IF TruthyList(res.result_dict) THEN res.result_dict.v ELSE <<>>,
   row_count |-> res.row_count,
   exec_ms |-> 0,
   limit |-> limit,
   schema_tables |-> extract_schema_table_names(snippet)]

\* if error_msg: ... else: ...  The assistant turn the handler stores.
ExecutionTurn(res, text, why, limit, snippet) ==
  IF TruthyStr(res.error_msg)
    THEN [role |-> "assistant",
          content |-> <<"exec_failed", res.error_msg.v>>,
          sql |-> text,
          reasoning |-> why,
          error |-> res.error_msg.v]
    ELSE [role |-> "assistant",
          content |-> <<"exec_ok">>,
          sql |-> text,
          reasoning |-> why,
          result |-> IF TruthyList(res.result_dict) THEN res.result_dict.v ELSE <<>>,
          row_count |-> res.row_count,
          exec_ms |-> 0,
          limit |-> limit,
          schema_tables |-> extract_schema_table_names(snippet)]

\* The end of the execution stage, r being how run_readonly_select_simple
\* ended: execute_sql_query catches, the turn is stored, st.rerun().
Finish(r) ==
  /\ calls' = [calls EXCEPT ![Len(calls)].ret = IF r.raised THEN "raise" ELSE "value"]
  /\ returned' = IF r.raised THEN None ELSE Some(r.value)
  /\ IF r.raised /\ ~IsException(r.cls)
       THEN Uncaught /\ UNCHANGED messages
       ELSE /\ messages' = Append(messages,
                 ExecutionTurn(execute_sql_query(r), sql.v, reasoning.v, max_rows,
                               SCHEMA_SNIPPET))
            /\ Rerun

\* execute_sql_query calls run_readonly_select_simple: engine = get_engine()
ExecGetEngine ==
  /\ pc = "execute"
  /\ LET e == get_engine(PG_DSN) IN
     IF e.raised
       THEN /\ calls' = Append(calls, [fn |-> "run_readonly_select_simple",
                                       arg |-> sql.v, ret |-> "raise"])
            /\ returned' = None
            /\ messages' = Append(messages,
                 ExecutionTurn(execute_sql_query(e), sql.v, reasoning.v, max_rows,
                               SCHEMA_SNIPPET))
            /\ Rerun
       ELSE /\ calls' = Append(calls, [fn |-> "run_readonly_select_simple",
                                       arg |-> sql.v, ret |-> "pending"])
            /\ pc' = "connect"
            /\ UNCHANGED <<messages, lastRun, returned>>
  /\ UNCHANGED <<rebuildVars, settings, turnLocals, conn, db_rows>>

\* with engine.connect() as conn:
ExecConnect ==
  /\ pc = "connect"
  /\ \/ /\ conn' = FreshConn
        /\ pc' = "setup"
        /\ UNCHANGED <<messages, lastRun, calls, returned>>
     \/ /\ Finish(Raise("OperationalError", "connect"))
        /\ UNCHANGED conn
  /\ UNCHANGED <<rebuildVars, settings, turnLocals, db_rows>>

\* conn.execute(text(setup_sql))
ExecSetup ==
  /\ pc = "setup"
  /\ \/ /\ conn' = SetGuards(conn)
        /\ pc' = "query"
        /\ UNCHANGED <<messages, lastRun, calls, returned>>
     \/ /\ conn' = ConnExit(conn)
        /\ Finish(Raise("OperationalError", "setup"))
  /\ UNCHANGED <<rebuildVars, settings, turnLocals, db_rows>>

\* conn.execute(text(sql)), fetchall, truncation, return; then the
\* bookkeeping of the handler.
ExecQuery ==
  /\ pc = "query"
  /\ \E out \in UserSqlOutcomes(sql.v, conn.guards) :
       /\ conn' = ConnExit(RunUserSql(conn))
       /\ IF out.raised
            THEN Finish(out) /\ UNCHANGED db_rows
            ELSE /\ db_rows' = out.value
                 /\ Finish(Return(ResultOf(out.value, max_rows)))
  /\ UNCHANGED <<rebuildVars, settings, turnLocals>>

Next ==
  \/ ClearChat
  \/ \E limit \in RowLimits, k \in TopKs : ChangeSettings(limit, k)
  \/ \E p \in Prompts, limit \in RowLimits, k \in TopKs : Submit(p, limit, k)
  \/ Translate
  \/ Retrieve
  \/ Generate
  \/ Validate
  \/ ExecGetEngine
  \/ ExecConnect
  \/ ExecSetup
  \/ ExecQuery

Spec == Init /\ [][Next]_vars

\* ------------------------------------------------- schema catalog builder
\* Names are sequences of parts, so that f"{schema}.{table}" is concatenation.
Name(x) == <<x>>
Dot == "."

\* One column of information_schema.columns.
Column(name, type, nullable) ==
  [column_name |-> name, data_type |-> type, is_nullable |-> nullable,
   column_default |-> None]

\* The relations the database may hold: two tables (the second refers to the
\* first) and a view.
Film ==
  [table_schema |-> Name("public"), table_name |-> Name("film"),
   table_type |-> "BASE TABLE",
   columns |-> <<Column("film_id", "integer", "NO"), Column("title", "text", "NO")>>,
   pk |-> <<"film_id">>,
   fk |-> <<>>]
FilmList ==
  [table_schema |-> Name("public"), table_name |-> Name("film_list"),
   table_type |-> "VIEW",
   columns |-> <<Column("fid", "integer", "YES")>>,
   pk |-> <<>>,
   fk |-> <<>>]
Rental ==
  [table_schema |-> Name("public"), table_name |-> Name("rental"),
   table_type |-> "BASE TABLE",
   columns |-> <<Column("rental_id", "integer", "NO"),
                 Column("film_id", "integer", "YES")>>,
   pk |-> <<"rental_id">>,
   fk |-> <<[column_name |-> "film_id", foreign_schema |-> Name("public"),
             foreign_table |-> Name("film"), foreign_column |-> "film_id"]>>]
\* ORDER BY table_schema, table_name
RelationOrder == <<Film, FilmList, Rental>>
Relations == {RelationOrder[i] : i \in 1..Len(RelationOrder)}

SystemSchemas == {Name("pg_catalog"), Name("information_schema")}

RECURSIVE Flatten(_)
Flatten(ss) == IF ss = <<>> THEN <<>> ELSE Head(ss) \o Flatten(Tail(ss))

\* The relations of d, in the order of the catalog queries.
Present(d) == SelectSeq(RelationOrder, LAMBDA r : r \in d)

\* db.get_tables: base tables outside the system schemas.
get_tables(d) ==
  LET rs == SelectSeq(Present(d),
              LAMBDA r : r.table_type = "BASE TABLE"
                         /\ r.table_schema \notin SystemSchemas) IN
  [i \in 1..Len(rs) |->
     [table_schema |-> rs[i].table_schema, table_name |-> rs[i].table_name]]

\* db.get_columns: the columns of every relation outside the system schemas;
\* the query has no table_type filter, and information_schema.columns lists
\* the columns of views too.
get_columns(d) ==
  LET rs == SelectSeq(Present(d), LAMBDA r : r.table_schema \notin SystemSchemas) IN
  Flatten([i \in 1..Len(rs) |->
     [j \in 1..Len(rs[i].columns) |->
        [table_schema |-> rs[i].table_schema,
         table_name |-> rs[i].table_name,
         column_name |-> rs[i].columns[j].column_name,
         data_type |-> rs[i].columns[j].data_type,
         is_nullable |-> rs[i].columns[j].is_nullable,
         column_default |-> rs[i].columns[j].column_default]]])

\* db.get_pk: one row per primary-key column.
get_pk(d) ==
  LET rs == Present(d) IN
  Flatten([i \in 1..Len(rs) |->
     [j \in 1..Len(rs[i].pk) |->
        [table_schema |-> rs[i].table_schema,
         table_name |-> rs[i].table_name,
         column_name |-> rs[i].pk[j]]]])

\* db.get_fk: one row per foreign-key column; a constraint exists only while
\* the table it refers to does.
get_fk(d) ==
  LET rs == Present(d)
      Live(f) == \E t \in d : /\ t.table_schema = f.foreign_schema
                              /\ t.table_name = f.foreign_table
  IN
  Flatten([i \in 1..Len(rs) |->
     LET fs == SelectSeq(rs[i].fk, Live) IN
     [j \in 1..Len(fs) |->
        [table_schema |-> rs[i].table_schema,
         table_name |-> rs[i].table_name,
         column_name |-> fs[j].column_name,
         foreign_schema |-> fs[j].foreign_schema,
         foreign_table |-> fs[j].foreign_table,
         foreign_column |-> fs[j].foreign_column]]])

\* key = f"{t['table_schema']}.{t['table_name']}"
Key(schema, table) == schema \o <<Dot>> \o table

\* schema_map is a defaultdict, kept as the list of its items in insertion
\* order; this is the value its factory makes for a key that is not there.
DefaultEntry(key) ==
  [key |-> key, schema |-> <<>>, table |-> <<>>, columns |-> <<>>,
   primary_key |-> <<>>, foreign_keys |-> <<>>]

HasKey(m, key) == \E i \in 1..Len(m) : m[i].key = key

\* schema_map[key]: a missing key is inserted with the default value.
Touch(m, key) == IF HasKey(m, key) THEN m ELSE Append(m, DefaultEntry(key))

\* One pass of one of the four merge loops.
Put(m, kind, row) ==
  LET key == Key(row.table_schema, row.table_name)
      m2 == Touch(m, key)
      i == CHOOSE n \in 1..Len(m2) : m2[n].key = key
  IN
  CASE kind = "table" ->
         [m2 EXCEPT ![i].schema = row.table_schema, ![i].table = row.table_name]
    [] kind = "column" ->
         [m2 EXCEPT ![i].columns =
            Append(@, [name |-> row.column_name, type |-> row.data_type,
                       nullable |-> (row.is_nullable = "YES"),
                       default |-> row.column_default])]
    [] kind = "pk" ->
         [m2 EXCEPT ![i].primary_key = Append(@, row.column_name)]
    [] kind = "fk" ->
         [m2 EXCEPT ![i].foreign_keys =
            Append(@, [from |-> row.column_name,
                       to |-> Key(row.foreign_schema, row.foreign_table)
                                \o <<Dot, row.foreign_column>>])]

RECURSIVE MergeRows(_, _, _)
MergeRows(m, kind, rows) ==
  IF rows = <<>> THEN m ELSE MergeRows(Put(m, kind, Head(rows)), kind, Tail(rows))

\* The four loops of build_schema_cache over tables, columns, pk, fk.
schema_map(tables, columns, pk, fk) ==
  MergeRows(MergeRows(MergeRows(MergeRows(<<>>, "table", tables),
                                "column", columns), "pk", pk), "fk", fk)

\* A value of schema_map: the descriptor of one table.
Descriptor(e) ==
  [schema |-> e.schema, table |-> e.table, columns |-> e.columns,
   primary_key |-> e.primary_key, foreign_keys |-> e.foreign_keys]

\* list(schema_map.values())
values(m) == [i \in 1..Len(m) |-> Descriptor(m[i])]

\* json.dumps(data, indent=4, ensure_ascii=False): the text of the object.
dumps(data) == [json |-> data]

\* blob_name = f"{title}.json"
BlobName(title) == title \o <<".json">>

\* upload_blob(json_data, overwrite=True): the blob of that name is replaced.
upload_json_to_blob(st, data, title) ==
  {b \in st : b.name # BlobName(title)}
    \cup {[name |-> BlobName(title), data |-> dumps(data)]}

\* container_client.list_blobs(): the blobs by name.
KeyOrder ==
  <<Key(Film.table_schema, Film.table_name),
    Key(FilmList.table_schema, FilmList.table_name),
    Key(Rental.table_schema, Rental.table_name)>>

list_blobs(st) ==
  LET ks == SelectSeq(KeyOrder, LAMBDA k : \E b \in st : b.name = BlobName(k)) IN
  [i \in 1..Len(ks) |-> CHOOSE b \in st : b.name = BlobName(ks[i])]

\* delete_all_blobs_in_container: the blobs are deleted one by one in listing
\* order.  The call returns when all are deleted; it raises with the first n
\* deleted (n = 0: no connection string, or the service cannot be reached).
delete_all_blobs_in_container(st) ==
  LET l == list_blobs(st)
      Deleted(n) == {l[i] : i \in 1..n}
  IN
  {[raised |-> FALSE, deleted |-> Deleted(Len(l))]}
    \cup {[raised |-> TRUE, deleted |-> Deleted(n)] :
            n \in 0..Max(0, Len(l) - 1)}


\* The container as a rebuild of the catalog d leaves it.
StoreOf(d) ==
  LET m == schema_map(get_tables(d), get_columns(d), get_pk(d), get_fk(d)) IN
  {[name |-> BlobName(m[i].key), data |-> dumps(Descriptor(m[i]))] :
     i \in 1..Len(m)}

\* A rebuild that empties the container before it reads the catalog.
After_PurgeBeforeReads(step) ==
  CASE step = "engine" -> "purge"
    [] step = "purge" -> "tables"
    [] step = "tables" -> "columns"
    [] step = "columns" -> "pk"
    [] step = "pk" -> "fk"
    [] step = "fk" -> "merge"
    [] step = "merge" -> "upload"
    [] step = "upload" -> "return"

\* The order of the statements of build_schema_cache.
After(step) ==
  CASE step = "engine" -> "tables"
    [] step = "tables" -> "columns"
    [] step = "columns" -> "pk"
    [] step = "pk" -> "fk"
    [] step = "fk" -> "merge"
    [] step = "merge" -> "purge"
    [] step = "purge" -> "upload"
    [] step = "upload" -> "return"

sessionVars ==
  <<messages, pc, lastRun, PG_DSN, prompt, max_rows, schema_top_k, question,
    SCHEMA_SNIPPET, sql, reasoning, sql_valid, calls, conn, db_rows, returned>>

\* An exception leaves build_schema_cache; the button's handler shows it
\* (except Exception as e: st.error).
Abort(r, why) == [r EXCEPT !.pc = "idle", !.outcome = why]

\* The "update schema" button: build_schema_cache() is called.
UpdateSchema ==
  /\ pc = "idle"
  /\ rb.pc = "idle"
  /\ rb.n < MaxRebuilds
  /\ rb' = [NoRebuild EXCEPT !.pc = "engine", !.outcome = "running",
                             !.before = store, !.n = rb.n + 1]
  /\ UNCHANGED <<sessionVars, db, store>>

\* engine = get_engine()
RebuildGetEngine ==
  /\ rb.pc = "engine"
  /\ rb' = IF get_engine(PG_DSN).raised
             THEN Abort(rb, "engine_failed")
             ELSE [rb EXCEPT !.pc = After("engine")]
  /\ UNCHANGED <<sessionVars, db, store>>

\* tables = get_tables(engine)
ReadTables ==
  /\ rb.pc = "tables"
  /\ \/ rb' = [rb EXCEPT !.tables = get_tables(db), !.read = @ \cup {"tables"},
                         !.pc = After("tables")]
     \/ rb' = Abort(rb, "read_failed")
  /\ UNCHANGED <<sessionVars, db, store>>

\* columns = get_columns(engine)
ReadColumns ==
  /\ rb.pc = "columns"
  /\ \/ rb' = [rb EXCEPT !.columns = get_columns(db), !.read = @ \cup {"columns"},
                         !.pc = After("columns")]
     \/ rb' = Abort(rb, "read_failed")
  /\ UNCHANGED <<sessionVars, db, store>>

\* pk = get_pk(engine)
ReadPk ==
  /\ rb.pc = "pk"
  /\ \/ rb' = [rb EXCEPT !.pk = get_pk(db), !.read = @ \cup {"pk"},
                         !.pc = After("pk")]
     \/ rb' = Abort(rb, "read_failed")
  /\ UNCHANGED <<sessionVars, db, store>>

\* fk = get_fk(engine)
ReadFk ==
  /\ rb.pc = "fk"
  /\ \/ rb' = [rb EXCEPT !.fk = get_fk(db), !.read = @ \cup {"fk"},
                         !.pc = After("fk")]
     \/ rb' = Abort(rb, "read_failed")
  /\ UNCHANGED <<sessionVars, db, store>>

\* The merge loops.
Merge ==
  /\ rb.pc = "merge"
  /\ rb' = [rb EXCEPT !.schema_map = schema_map(rb.tables, rb.columns, rb.pk, rb.fk),
                      !.pc = After("merge")]
  /\ UNCHANGED <<sessionVars, db, store>>

\* delete_all_blobs_in_container()
Purge ==
  /\ rb.pc = "purge"
  /\ \E out \in delete_all_blobs_in_container(store) :
       /\ store' = store \ out.deleted
       /\ rb' = IF out.raised
                  THEN Abort([rb EXCEPT !.deleted = out.deleted], "purge_failed")
                  ELSE [rb EXCEPT !.deleted = out.deleted, !.pc = After("purge")]
  /\ UNCHANGED <<sessionVars, db>>

\* for sm in schema_map: upload_json_to_blob(schema_map[sm], sm)
\* One pass of the loop, or its end.
Upload ==
  /\ rb.pc = "upload"
  /\ IF rb.i > Len(rb.schema_map)
       THEN /\ rb' = [rb EXCEPT !.pc = After("upload")]
            /\ UNCHANGED store
       ELSE LET e == rb.schema_map[rb.i] IN
            \/ /\ store' = upload_json_to_blob(store, Descriptor(e), e.key)
               /\ rb' = [rb EXCEPT !.uploaded = Append(@, e.key), !.i = @ + 1]
            \/ /\ rb' = Abort(rb, "upload_failed")
               /\ UNCHANGED store
  /\ UNCHANGED <<sessionVars, db>>

\* return list(schema_map.values())
RebuildReturn ==
  /\ rb.pc = "return"
  /\ rb' = [rb EXCEPT !.pc = "idle", !.outcome = "done",
                      !.result = values(rb.schema_map)]
  /\ UNCHANGED <<sessionVars, db, store>>

\* Another session of the database creates or drops a relation.  The four
\* catalog queries run on four connections, each in its own transaction, so
\* this can happen between two of them.
Ddl ==
  /\ \E r \in Relations :
       db' = IF r \in db THEN db \ {r} ELSE db \cup {r}
  /\ rb.ddl < MaxDdl
  /\ rb' = [rb EXCEPT !.ddl = @ + 1]
  /\ UNCHANGED <<sessionVars, store>>

InitRebuild ==
  /\ messages = <<Greeting>>
  /\ pc = "idle"
  /\ lastRun = "none"
  /\ PG_DSN \in {"", "dsn"}
  /\ prompt = <<>>
  /\ max_rows = MinMaxRows
  /\ schema_top_k = MinTopK
  /\ question = <<>>
  /\ SCHEMA_SNIPPET = None
  /\ sql = None
  /\ reasoning = None
  /\ sql_valid = FALSE
  /\ calls = <<>>
  /\ conn = NoConn
  /\ db_rows = <<>>
  /\ returned = None
  /\ db \in SUBSET Relations
  /\ store \in {StoreOf(d) : d \in {{}, Relations}}
  /\ rb = NoRebuild

NextRebuild ==
  \/ UpdateSchema
  \/ RebuildGetEngine
  \/ ReadTables
  \/ ReadColumns
  \/ ReadPk
  \/ ReadFk
  \/ Merge
  \/ Purge
  \/ Upload
  \/ RebuildReturn
  \/ Ddl

SpecRebuild == InitRebuild /\ [][NextRebuild]_vars

\* ================================================================ claims
Executor == "run_readonly_select_simple"

CallIndexes(fn) == {i \in 1..Len(calls) : calls[i].fn = fn}

\* C1: in a turn the executor is invoked only right after the gatekeeper
\* accepted the same SQL, the gatekeeper only right after generation returned,
\* generation only right after schema retrieval returned a snippet; no call
\* follows a call that did not complete successfully.
C1_StagesInOrder ==
  \A i \in 1..Len(calls) :
    /\ i < Len(calls) => calls[i].ret = "value"
    /\ calls[i].fn = Executor =>
         /\ i > 1
         /\ calls[i - 1].fn = "gatekeeper"
         /\ calls[i - 1].ret = "value"
         /\ calls[i - 1].arg = calls[i].arg
    /\ calls[i].fn = "gatekeeper" =>
         i > 1 /\ calls[i - 1].fn = "nl2sql" /\ calls[i - 1].ret = "value"
    /\ calls[i].fn = "nl2sql" =>
         i > 1 /\ calls[i - 1].fn = "get_schema_snippet" /\ calls[i - 1].ret = "value"

\* C1 witness: a turn that went through all stages and executed its SQL.
C1_Witness ==
  /\ pc = "idle"
  /\ Len(calls) >= 4
  /\ Last(calls).fn = Executor
  /\ Last(calls).ret = "value"

\* The statements of an SQL text: its non-empty chunks.
NonEmptyChunk(c) == c # <<>>
Statements(t) == SelectSeq(Chunks(t), NonEmptyChunk)
IsSingleSelect(t) ==
  /\ ~parse(t).raised
  /\ Len(Statements(t)) = 1
  /\ ParseChunk(Statements(t)[1]) = "select"

\* C2: every SQL text handed to the executor is exactly one statement, a
\* SELECT; a text of several statements never reaches it.
C2_OnlySingleSelectExecuted ==
  \A i \in CallIndexes(Executor) : IsSingleSelect(calls[i].arg)

\* C3: when the search raises during schema retrieval, get_schema_snippet
\* returns an empty sequence and the turn goes on to generation with an
\* empty schema context.
C3_SearchErrorGivesEmptySnippet ==
  \A i \in CallIndexes("get_schema_snippet") :
    calls[i].ext = "search_error" =>
      /\ calls[i].ret = "value"
      /\ SCHEMA_SNIPPET = Some(<<>>)
      /\ pc = "idle" =>
           \E j \in CallIndexes("nl2sql") : j > i /\ calls[j].schema = <<>>

\* C4: a reply that is not JSON, or lacks `sql`, or lacks `reasoning_short`,
\* makes the generation call fail: the turn ends as a generation failure,
\* with no validation and no execution after it.
C4_ContractViolationFailsGeneration ==
  \A i \in CallIndexes("nl2sql") :
    calls[i].ext \in {"not_json", "no_sql", "no_reasoning"} =>
      /\ calls[i].ret = "raise"
      /\ i = Len(calls)
      /\ pc = "idle"
      /\ Last(messages).content[1] = "generation_failed"

\* Why the gatekeeper must refuse a text, if it must.
RejectClass(t) ==
  CASE t = <<>> -> "empty"
    [] parse(t).raised -> "unparseable"
    [] Statements(t) = <<>> -> "unparseable"
    [] ParseChunk(Chunks(t)[1]) # "select" -> "not_select"
    [] OTHER -> "none"

\* C5: every generated SQL that is empty after trimming, unparseable, or
\* whose top-level statement is not SELECT is rejected with a reason and
\* recorded as a validation-failed assistant turn right after the user's
\* turn; no exception leaves the validation step and nothing is executed.
C5_RejectionIsAValidationFailedTurn ==
  \A i \in CallIndexes("gatekeeper") :
    RejectClass(calls[i].arg) # "none" =>
      /\ calls[i].ret = "raise"
      /\ i = Len(calls)
      /\ pc = "idle"
      /\ lastRun = "rerun"
      /\ Len(messages) >= 2
      /\ Last(messages).role = "assistant"
      /\ Len(Last(messages).content) = 2
      /\ Last(messages).content[1] = "validation_failed"
      /\ Last(messages).content[2] # ""
      /\ messages[Len(messages) - 1] = [role |-> "user", content |-> prompt]

\* C5 witness: an unparseable text was rejected and recorded.
C5_Witness ==
  /\ calls # <<>>
  /\ Last(calls).fn = "gatekeeper"
  /\ RejectClass(Last(calls).arg) = "unparseable"
  /\ Last(messages).content = <<"validation_failed", "syntax">>

FailureStages ==
  {"schema_failed", "generation_failed", "validation_failed", "exec_failed"}

\* C6: whichever call of a turn fails (translation, missing configuration,
\* generation, validation, execution), no exception leaves the turn handler
\* and the failure is stored as one assistant turn right after the user's.
C6_FailureSurfacedOnce ==
  (/\ pc = "idle"
   /\ \E i \in 1..Len(calls) :
        calls[i].fn \in {"translator", "nl2sql", "gatekeeper", Executor}
          /\ calls[i].ret = "raise")
    => /\ lastRun # "exception"
       /\ Len(messages) >= 2
       /\ Last(messages).role = "assistant"
       /\ Last(messages).content[1] \in FailureStages
       /\ messages[Len(messages) - 1] = [role |-> "user", content |-> prompt]

\* C7: whenever run_readonly_select_simple raises, whatever the text of the
\* exception, the stored assistant turn has an `error` field and neither
\* `result` nor `row_count` nor the success content.
C7_ExecutorErrorStoredAsFailedTurn ==
  (pc = "idle" /\ calls # <<>> /\ Last(calls).fn = Executor
     /\ Last(calls).ret = "raise")
    => /\ "error" \in DOMAIN Last(messages)
       /\ DOMAIN Last(messages) \cap {"result", "row_count"} = {}
       /\ Last(messages).content[1] = "exec_failed"

\* C8: a successful execution returns at most max_rows rows, they are the
\* leading rows the database returned, in order, and nothing is dropped when
\* the database returned no more than max_rows rows.
C8_RowsAreLeadingRows ==
  returned # None =>
    LET rows == returned.v.rows IN
    /\ Len(rows) <= max_rows
    /\ Len(rows) <= Len(db_rows)
    /\ \A j \in 1..Len(rows) : rows[j] = <<db_rows[j]>>
    /\ Len(db_rows) <= max_rows => Len(rows) = Len(db_rows)

\* C8 witness: the database returned more rows than max_rows and the call
\* returned.
C8_Witness == returned # None /\ Len(db_rows) > max_rows

GuardsSet ==
  [statement_timeout |-> StatementTimeoutMs, transaction_read_only |-> TRUE]

\* C9: the user SQL runs on a connection only after the statement timeout
\* and the read-only flag were set on that connection; when the setup fails
\* no user SQL runs; the connection is opened new inside the call and is
\* released whenever the call is over.
C9_GuardsBeforeUserSqlAndRelease ==
  /\ conn.state # "none" =>
       \A i \in 1..Len(conn.executed) :
         /\ conn.executed[i].kind = "user" =>
              /\ i = 2
              /\ conn.executed[1].kind = "setup"
              /\ conn.executed[i].guards = GuardsSet
         /\ conn.executed[i].kind = "setup" =>
              i = 1 /\ conn.executed[i].guards = FreshConn.guards
  /\ conn.state = "open" <=> pc \in {"setup", "query"}
  /\ pc \in {"idle", "translate", "schema", "generate", "validate", "execute",
             "connect"} => conn.state \in {"none", "closed"}

\* C9 witness: a call that set the guards, ran the user SQL and released the
\* connection.
C9_Witness ==
  /\ pc = "idle"
  /\ conn.state = "closed"
  /\ Len(conn.executed) = 2
  /\ conn.executed[2].kind = "user"

\* Unicode's Hangul blocks: Jamo, Compatibility Jamo, Jamo Extended-A,
\* Syllables, Jamo Extended-B.
IsHangul(cp) ==
  \/ 4352 <= cp /\ cp <= 4607
  \/ 12592 <= cp /\ cp <= 12687
  \/ 43360 <= cp /\ cp <= 43391
  \/ 44032 <= cp /\ cp <= 55215
  \/ 55216 <= cp /\ cp <= 55295

ContainsHangul(text) == \E i \in 1..Len(text) : IsHangul(CodePoint[text[i]])
IsAscii(text) == \A i \in 1..Len(text) : CodePoint[text[i]] < 128

\* C10: a question with at least one Hangul character is translated exactly
\* once, before schema retrieval, and retrieval and generation get the
\* translation; a pure-ASCII question is not translated and is passed on
\* unchanged.
C10_HangulQuestionsAreTranslated ==
  (prompt # <<>> /\ pc # "translate") =>
    /\ ContainsHangul(prompt) =>
         /\ Cardinality(CallIndexes("translator")) = 1
         /\ calls[1].fn = "translator"
         /\ \A i \in CallIndexes("get_schema_snippet") \cup CallIndexes("nl2sql") :
              calls[i].arg \in Translations
    /\ IsAscii(prompt) =>
         /\ CallIndexes("translator") = {}
         /\ \A i \in CallIndexes("get_schema_snippet") \cup CallIndexes("nl2sql") :
              calls[i].arg = prompt

\* The (schema, table) pairs of the table listing of the last rebuild.
ListedPairs == {rb.tables[i] : i \in 1..Len(rb.tables)}

\* C11: a rebuild that completes uploads and returns as many descriptors as
\* the table listing has distinct (schema, table) pairs; rows of the column,
\* primary-key or foreign-key queries for a pair that is not listed create no
\* descriptor.
C11_OneDescriptorPerListedTable ==
  rb.outcome = "done" =>
    /\ Len(rb.uploaded) = Cardinality(ListedPairs)
    /\ Len(rb.result) = Cardinality(ListedPairs)
    /\ \A i \in 1..Len(rb.uploaded) :
         \E t \in ListedPairs : rb.uploaded[i] = Key(t.table_schema, t.table_name)

CatalogQueries == {"tables", "columns", "pk", "fk"}

\* C12: when one of the four catalog queries fails the rebuild is over with
\* the container as it was when the rebuild began, nothing deleted and
\* nothing uploaded; a rebuild deletes or uploads only after all four
\* queries returned.
C12_ReadFailureLeavesStoreUnchanged ==
  /\ rb.outcome = "read_failed" =>
       /\ rb.pc = "idle"
       /\ store = rb.before
       /\ rb.deleted = {}
       /\ rb.uploaded = <<>>
  /\ (/\ rb.outcome # "none"
      /\ rb.deleted # {} \/ rb.uploaded # <<>> \/ store # rb.before) =>
       rb.read = CatalogQueries

\* C12 witness: a catalog query failed after another had returned, with
\* documents in the container.
C12_Witness ==
  /\ rb.outcome = "read_failed"
  /\ rb.read # {}
  /\ store # {}

\* The assistant turns the execution stage stores carry the SQL.
ExecutionTurns == {i \in 1..Len(messages) : "sql" \in DOMAIN messages[i]}

\* C13: no stored turn has both an `error` and a `result` field, and a turn
\* stored by the execution stage has one of the two (the result may be
\* empty).
C13_ErrorXorResult ==
  /\ \A i \in 1..Len(messages) :
       ~("error" \in DOMAIN messages[i] /\ "result" \in DOMAIN messages[i])
  /\ \A i \in ExecutionTurns :
       "error" \in DOMAIN messages[i] \/ "result" \in DOMAIN messages[i]

\* C13 witness: a failed execution is stored.
C13_Witness ==
  \E i \in ExecutionTurns :
    "error" \in DOMAIN messages[i] /\ messages[i].error # ""

\* C14: the list is never empty; a step leaves it alone, or replaces it by
\* the one greeting turn (Clear, between runs), or appends one turn and keeps
\* all the others: the user's turn when the question is submitted, after that
\* an assistant turn, which ends the run.
C14_AppendOnlyBetweenResets ==
  /\ [](messages # <<>>)
  /\ [][\/ messages' = messages
        \/ pc = "idle" /\ pc' = "idle" /\ messages' = <<Greeting>>
        \/ /\ Len(messages') = Len(messages) + 1
           /\ SubSeq(messages', 1, Len(messages)) = messages
           /\ IF pc = "idle"
                THEN Last(messages').role = "user" /\ pc' # "idle"
                ELSE Last(messages').role = "assistant" /\ pc' = "idle"]_vars

\* C14 witness: a question was answered: the greeting, the user's turn, one
\* assistant turn.
C14_Witness ==
  /\ pc = "idle"
  /\ Len(messages) = 3
  /\ messages[1] = Greeting
  /\ messages[2].role = "user"
  /\ messages[3].role = "assistant"

====
